---- MODULE Spec2Model ----
(***************************************************************************)
(* Course catalog portal (app.py): a JSON file of course records behind    *)
(* four Flask routes, each wrapped in nested trace spans and counted in    *)
(* process-wide counters.  A request is served by a worker thread; the     *)
(* steps of a handler are cut at its accesses to shared state (the catalog *)
(* file and the two counter dictionaries).                                 *)
(***************************************************************************)
EXTENDS Integers, Sequences, FiniteSets, TLC

\* Bound of the model: the number of requests the host dispatches in a run.
MaxRequests == 3

\* The worker threads of the server (app.run serves each request on a thread).
Workers == {"w1", "w2"}

\* The single thread of a sequential execution.
MainWorker == "w1"

----------------------------------------------------------------------------
(* Python values *)

\* None, and a str
PyNone == [type |-> "NoneType"]
PyStr(s) == [type |-> "str", val |-> s]

\* a test that takes only None for missing: "value is None"
Falsy_noneOnly(v) == v = PyNone

\* Python truthiness of None / str: "not value"
Falsy(v) == v = PyNone \/ (v.type = "str" /\ v.val = "")

\* keys of course_data in insertion order
CourseKeys == <<"name", "code", "instructor", "semester", "schedule",
                "classroom", "prerequisites", "grading", "description">>

KeySet == {CourseKeys[i] : i \in 1..Len(CourseKeys)}

\* the set literal of the validation comprehension
RequiredKeys == {"name", "code", "instructor", "semester"}

OptionalKeys == KeySet \ RequiredKeys

\* request.form.get(key): the submitted string, or None when the key is absent
FormGet(form, key) == IF key \in DOMAIN form THEN PyStr(form[key]) ELSE PyNone

\* course_data with the instructor read from the semester field
CourseData_swapped(form) ==
    [k \in KeySet |-> IF k = "instructor" THEN FormGet(form, "semester")
                      ELSE FormGet(form, k)]

\* the course_data dict literal
CourseData(form) == [k \in KeySet |-> FormGet(form, k)]

\* [key for key, value in course_data.items() if not value and key in {...}]
MissingFields(course_data) ==
    SelectSeq(CourseKeys, LAMBDA k : Falsy(course_data[k]) /\ k \in RequiredKeys)

\* a search that looks at the first record only
FindByCode_first(courses, code) ==
    IF courses # <<>> /\ Head(courses)["code"] = code THEN Head(courses) ELSE PyNone

\* a search that returns the first record whatever its code
FindByCode_any(courses, code) == IF courses = <<>> THEN PyNone ELSE Head(courses)

\* next((course for course in courses if course["code"] == code), None)
RECURSIVE FindByCode(_, _)
FindByCode(courses, code) ==
    IF courses = <<>> THEN PyNone
    ELSE IF Head(courses)["code"] = code THEN Head(courses)
    ELSE FindByCode(Tail(courses), code)

\* bool(course): None is falsy, a non-empty dict is truthy
Truthy(course) == course # PyNone

\* courses.insert(0, data)
ListAppend_front(courses, data) == <<data>> \o courses

\* courses = [data]
ListAppend_only(courses, data) == <<data>>

\* courses.append(data)
ListAppend(courses, data) == Append(courses, data)

----------------------------------------------------------------------------
(* JSON and the catalog file *)

\* json.dump of one value: None is written as null, a str as a string
JsonEncode(v) == IF v = PyNone THEN [json |-> "null"]
                 ELSE [json |-> "string", chars |-> v.val]

\* json.load of one value
JsonDecode(j) == IF j.json = "null" THEN PyNone ELSE PyStr(j.chars)

\* json.dump(courses, file): an array of objects
JsonDump(courses) ==
    [i \in 1..Len(courses) |-> [k \in DOMAIN courses[i] |-> JsonEncode(courses[i][k])]]

\* json.load(file) of an array of objects
JsonLoad(array) ==
    [i \in 1..Len(array) |-> [k \in DOMAIN array[i] |-> JsonDecode(array[i][k])]]

\* The states of COURSE_FILE: absent; just truncated by open(.., 'w'); holding
\* a JSON array; holding the bytes of two overlapping writes.
NoFile == [state |-> "absent"]
EmptyFile == [state |-> "empty"]
TornFile == [state |-> "torn"]
JsonFile(array) == [state |-> "json", array |-> array]

\* load_courses() raises (json.JSONDecodeError) on a file that is no JSON
LoadRaises(f) == f.state \in {"empty", "torn"}

\* load_courses() on a file it can read
LoadCourses(f) == IF f.state = "absent" THEN <<>> ELSE JsonLoad(f.array)

----------------------------------------------------------------------------
(* Requests *)

\* Marks, in the enumeration of forms, a key the form does not carry.
Absent == "<absent>"

\* The form holding the keys of vals that are not marked absent.
FormOf(vals) == [k \in {x \in KeySet : vals[x] # Absent} |-> vals[k]]

NoOptionals == [k \in OptionalKeys |-> Absent]

SomeOptionals == [k \in OptionalKeys |->
                    IF k = "schedule" THEN ""
                    ELSE IF k = "prerequisites" THEN Absent
                    ELSE IF k = "classroom" THEN "R1"
                    ELSE IF k = "grading" THEN "A-F"
                    ELSE "Intro"]

FormValues(n, c, i, s, o) ==
    [k \in KeySet |-> IF k = "name" THEN n
                      ELSE IF k = "code" THEN c
                      ELSE IF k = "instructor" THEN i
                      ELSE IF k = "semester" THEN s
                      ELSE o[k]]

\* The codes of the model: two that differ in case only.
Codes == {"CS301", "cs301"}

\* The forms a client posts to /add_course.
Forms == {FormOf(FormValues(n, c, i, s, o)) :
            n \in {Absent, "", "Algorithms"},
            c \in {Absent} \cup Codes,
            i \in {"", "A. Turing"},
            s \in {Absent, "Fall"},
            o \in {NoOptionals, SomeOptionals}}

\* The forms posted while another request may be in progress.
ConcurrentForms == {FormOf(FormValues(n, c, "A. Turing", "Fall", NoOptionals)) :
                      n \in {"Algorithms"}, c \in Codes}
                   \cup {FormOf(FormValues("", "CS301", "A. Turing", Absent, NoOptionals))}

NoForm == [k \in {} |-> ""]

Get(route) == [route |-> route, method |-> "GET", form |-> NoForm, code |-> ""]

Details(code) == [route |-> "course_details", method |-> "GET", form |-> NoForm,
                  code |-> code]

Post(form) == [route |-> "add_course", method |-> "POST", form |-> form, code |-> ""]

\* The requests the routes accept (@app.route: GET everywhere, POST on /add_course).
Requests == {Get("index"), Get("catalog"), Get("add_course")}
            \cup {Details(c) : c \in Codes}
            \cup {Post(f) : f \in Forms}

ConcurrentRequests == {Get("index"), Get("catalog"), Details("CS301")}
                      \cup {Post(f) : f \in ConcurrentForms}

----------------------------------------------------------------------------
(* Spans *)

\* tracer.start_as_current_span(name): entering the with block
StartSpan(tr, name) == Append(tr, <<"start", name>>)

\* a duplicate-check span that is started by hand and ended only at the end of
\* its block, which the early return skips
EndSpan_leak(tr, name) ==
    IF name = "check_duplicate_code" /\ tr[Len(tr)][1] = "event" THEN tr
    ELSE Append(tr, <<"end", name>>)

\* leaving the with block (normally, by return or by an exception)
EndSpan(tr, name) == Append(tr, <<"end", name>>)

\* span.add_event(name, ...)
AddEvent(tr, name) == Append(tr, <<"event", name>>)

\* the name of the root span of each route
RootSpan(route) == IF route = "catalog" THEN "course_catalog" ELSE route

\* x += 1, from the value read
Incremented(value) == value + 1

\* add_course counting itself under the key of the catalog route
CounterKey_catalog(route) == IF route = "add_course" THEN "catalog" ELSE route

\* the key of route_counts each handler increments
CounterKey(route) == route

\* the key of error_counts a failing request increments
ErrorKey(route, missing) ==
    IF route = "course_details" THEN "missing_fields"
    ELSE IF missing # <<>> THEN "missing_fields"
    ELSE "duplicate_code"

----------------------------------------------------------------------------
(* State *)

VARIABLES
    file,             \* COURSE_FILE on disk
    route_counts,     \* route_counts
    error_counts,     \* error_counts
    requests,         \* number of requests dispatched so far
    pc,               \* where each worker is in its handler
    req,              \* the request each worker serves
    entry,            \* the file and route_counts as they were at the latest
                      \* dispatch, and the record that the request its worker
                      \* served before had created, if it had
    count,            \* the counter value read by the += in progress (0 when none is)
    course_data,      \* add_course: course_data
    missing_fields,   \* add_course: missing_fields
    courses,          \* the list returned by load_courses()
    course,           \* course_details: course; add_course: duplicate_course
    result,           \* what the handler returned
    trace             \* the span starts, ends and events of the request, in order

vars == <<file, route_counts, error_counts, requests, pc, req, entry, count,
          course_data, missing_fields, courses, course, result, trace>>

shared == <<file, route_counts, error_counts>>

NoResult == [kind |-> "None"]

Outcome(kind, value) == [kind |-> kind, value |-> value]

Init ==
    /\ file = NoFile
    /\ route_counts = [index |-> 0, catalog |-> 0, add_course |-> 0, course_details |-> 0]
    /\ error_counts = [missing_fields |-> 0, duplicate_code |-> 0]
    /\ requests = 0
    /\ pc = [w \in Workers |-> "idle"]
    /\ req = [w \in Workers |-> Get("index")]
    /\ entry = [file |-> NoFile, route_counts |-> route_counts, created |-> PyNone]
    /\ count = [w \in Workers |-> 0]
    /\ course_data = [w \in Workers |-> PyNone]
    /\ missing_fields = [w \in Workers |-> <<>>]
    /\ courses = [w \in Workers |-> <<>>]
    /\ course = [w \in Workers |-> PyNone]
    /\ result = [w \in Workers |-> NoResult]
    /\ trace = [w \in Workers |-> <<>>]

\* The handler of w returns r: its frame is left at position "done".
Return(w, r, tr) ==
    /\ pc' = [pc EXCEPT ![w] = "done"]
    /\ result' = [result EXCEPT ![w] = r]
    /\ trace' = [trace EXCEPT ![w] = tr]

\* The handler of w goes on at position p.
Goto(w, p, tr) ==
    /\ pc' = [pc EXCEPT ![w] = p]
    /\ trace' = [trace EXCEPT ![w] = tr]
    /\ UNCHANGED result

----------------------------------------------------------------------------
(* The host *)

\* Flask hands request r to worker w, which is free.
Dispatch(w, r) ==
    /\ pc[w] \in {"idle", "done"}
    /\ requests < MaxRequests
    /\ requests' = requests + 1
    /\ req' = [req EXCEPT ![w] = r]
    /\ entry' = [file |-> file, route_counts |-> route_counts,
                 created |-> IF result[w].kind = "Created" THEN result[w].value
                             ELSE PyNone]
    /\ pc' = [pc EXCEPT ![w] = "enter"]
    /\ count' = [count EXCEPT ![w] = 0]
    /\ course_data' = [course_data EXCEPT ![w] = PyNone]
    /\ missing_fields' = [missing_fields EXCEPT ![w] = <<>>]
    /\ courses' = [courses EXCEPT ![w] = <<>>]
    /\ course' = [course EXCEPT ![w] = PyNone]
    /\ result' = [result EXCEPT ![w] = NoResult]
    /\ trace' = [trace EXCEPT ![w] = <<>>]
    /\ UNCHANGED shared

----------------------------------------------------------------------------
(* Steps common to the four handlers *)

\* with tracer.start_as_current_span(<route>) ...; the read of route_counts[..] += 1
Enter(w) ==
    /\ pc[w] = "enter"
    /\ count' = [count EXCEPT ![w] = route_counts[CounterKey(req[w].route)]]
    /\ Goto(w, "count", StartSpan(trace[w], RootSpan(req[w].route)))
    /\ UNCHANGED <<shared, requests, req, entry, course_data, missing_fields,
                   courses, course>>

\* the write of route_counts[..] += 1, then the branch on the route and method
CountRoute(w) ==
    /\ pc[w] = "count"
    /\ route_counts' = [route_counts EXCEPT
                           ![CounterKey(req[w].route)] = Incremented(count[w])]
    /\ Goto(w, CASE req[w].route = "catalog" -> "load"
                 [] req[w].route = "course_details" -> "lookup"
                 [] req[w].route = "add_course" /\ req[w].method = "POST" -> "form"
                 [] OTHER -> "render",
            trace[w])
    /\ count' = [count EXCEPT ![w] = 0]
    /\ UNCHANGED <<file, error_counts, requests, req, entry, course_data,
                   missing_fields, courses, course>>

\* index, and add_course on GET: return render_template(...)
Render(w) ==
    /\ pc[w] = "render"
    /\ IF req[w].route = "index"
       THEN Return(w, Outcome("Page", "index.html"), EndSpan(trace[w], "index"))
       ELSE Return(w, Outcome("Page", "add_course.html"),
                   EndSpan(AddEvent(trace[w], "add_course_page_accessed"), "add_course"))
    /\ UNCHANGED <<shared, requests, req, entry, count, course_data, missing_fields,
                   courses, course>>

\* the read of error_counts[..] += 1
ReadError(w) ==
    /\ pc[w] = "error"
    /\ count' = [count EXCEPT
                    ![w] = error_counts[ErrorKey(req[w].route, missing_fields[w])]]
    /\ Goto(w, "fail", trace[w])
    /\ UNCHANGED <<shared, requests, req, entry, course_data, missing_fields,
                   courses, course>>

\* the write of error_counts[..] += 1, the event of add_course, and the early
\* return out of the spans that are open
Fail(w) ==
    /\ pc[w] = "fail"
    /\ error_counts' = [error_counts EXCEPT
                           ![ErrorKey(req[w].route, missing_fields[w])] =
                               Incremented(count[w])]
    /\ IF req[w].route = "course_details"
       THEN Return(w, Outcome("NotFound", req[w].code),
                   EndSpan(trace[w], "course_details"))
       ELSE IF missing_fields[w] # <<>>
       THEN Return(w, Outcome("ValidationFailed", missing_fields[w]),
                   EndSpan(EndSpan(AddEvent(trace[w], "validation_failed"),
                                   "handle_form_submission"), "add_course"))
       ELSE Return(w, Outcome("DuplicateCode", course_data[w]["code"].val),
                   EndSpan(EndSpan(EndSpan(AddEvent(trace[w], "duplicate_course_code"),
                                           "check_duplicate_code"),
                                   "handle_form_submission"), "add_course"))
    /\ count' = [count EXCEPT ![w] = 0]
    /\ UNCHANGED <<file, route_counts, requests, req, entry, course_data,
                   missing_fields, courses, course>>

----------------------------------------------------------------------------
(* course_catalog *)

\* what an uncaught json.JSONDecodeError leaves the client with
StorageError == Outcome("StorageError", "JSONDecodeError")

\* the load_courses span, the render_catalog span, return render_template(...)
LoadCatalog(w) ==
    /\ pc[w] = "load"
    /\ IF LoadRaises(file)
       THEN /\ Return(w, StorageError,
                      EndSpan(EndSpan(StartSpan(trace[w], "load_courses"),
                                      "load_courses"), "course_catalog"))
            /\ UNCHANGED courses
       ELSE /\ courses' = [courses EXCEPT ![w] = LoadCourses(file)]
            /\ Return(w, Outcome("Listed", LoadCourses(file)),
                      EndSpan(EndSpan(StartSpan(EndSpan(StartSpan(trace[w],
                          "load_courses"), "load_courses"),
                          "render_catalog"), "render_catalog"), "course_catalog"))
    /\ UNCHANGED <<shared, requests, req, entry, count, course_data, missing_fields,
                   course>>

----------------------------------------------------------------------------
(* course_details *)

\* the load_course_data span; then either the course_not_found event on the
\* way to the not-found return, or
\* return render_template('course_details.html', course=course)
Lookup(w) ==
    /\ pc[w] = "lookup"
    /\ IF LoadRaises(file)
       THEN /\ Return(w, StorageError,
                      EndSpan(EndSpan(StartSpan(trace[w], "load_course_data"),
                                      "load_course_data"), "course_details"))
            /\ UNCHANGED <<courses, course>>
       ELSE /\ courses' = [courses EXCEPT ![w] = LoadCourses(file)]
            /\ course' = [course EXCEPT ![w] = FindByCode(LoadCourses(file), PyStr(req[w].code))]
            /\ IF ~Truthy(FindByCode(LoadCourses(file), PyStr(req[w].code)))
               THEN Goto(w, "error",
                         AddEvent(EndSpan(StartSpan(trace[w], "load_course_data"),
                                          "load_course_data"), "course_not_found"))
               ELSE Return(w, Outcome("Found",
                                      FindByCode(LoadCourses(file), PyStr(req[w].code))),
                           EndSpan(AddEvent(EndSpan(StartSpan(trace[w],
                               "load_course_data"), "load_course_data"),
                               "course_found"), "course_details"))
    /\ UNCHANGED <<shared, requests, req, entry, count, course_data, missing_fields>>

----------------------------------------------------------------------------
(* add_course on POST *)

\* the handle_form_submission span: course_data and the validation
HandleForm(w) ==
    /\ pc[w] = "form"
    /\ course_data' = [course_data EXCEPT ![w] = CourseData(req[w].form)]
    /\ missing_fields' = [missing_fields EXCEPT
                             ![w] = MissingFields(CourseData(req[w].form))]
    /\ Goto(w, IF MissingFields(CourseData(req[w].form)) # <<>> THEN "error"
               ELSE "check_dup",
            StartSpan(trace[w], "handle_form_submission"))
    /\ UNCHANGED <<shared, requests, req, entry, count, courses, course>>

\* the check_duplicate_code span
CheckDuplicate(w) ==
    /\ pc[w] = "check_dup"
    /\ IF LoadRaises(file)
       THEN /\ Return(w, StorageError,
                      EndSpan(EndSpan(EndSpan(StartSpan(trace[w],
                          "check_duplicate_code"), "check_duplicate_code"),
                          "handle_form_submission"), "add_course"))
            /\ UNCHANGED <<courses, course>>
       ELSE /\ courses' = [courses EXCEPT ![w] = LoadCourses(file)]
            /\ course' = [course EXCEPT
                             ![w] = FindByCode(LoadCourses(file), course_data[w]["code"])]
            /\ IF Truthy(FindByCode(LoadCourses(file), course_data[w]["code"]))
               THEN Goto(w, "error", StartSpan(trace[w], "check_duplicate_code"))
               ELSE Goto(w, "save",
                         EndSpan(StartSpan(trace[w], "check_duplicate_code"),
                                 "check_duplicate_code"))
    /\ UNCHANGED <<shared, requests, req, entry, count, course_data, missing_fields>>

\* the save_course_data span; save_courses: courses = load_courses(), courses.append(data)
SaveLoad(w) ==
    /\ pc[w] = "save"
    /\ IF LoadRaises(file)
       THEN /\ Return(w, StorageError,
                      EndSpan(EndSpan(EndSpan(StartSpan(trace[w], "save_course_data"),
                          "save_course_data"), "handle_form_submission"), "add_course"))
            /\ UNCHANGED courses
       ELSE /\ courses' = [courses EXCEPT
                              ![w] = ListAppend(LoadCourses(file), course_data[w])]
            /\ Goto(w, "open", StartSpan(trace[w], "save_course_data"))
    /\ UNCHANGED <<shared, requests, req, entry, count, course_data, missing_fields,
                   course>>

\* save_courses: open(COURSE_FILE, 'w') creates the file or truncates it
SaveOpen(w) ==
    /\ pc[w] = "open"
    /\ file' = EmptyFile
    /\ Goto(w, "dump", trace[w])
    /\ UNCHANGED <<route_counts, error_counts, requests, req, entry, count,
                   course_data, missing_fields, courses, course>>

\* What the file holds once the buffered json.dump is flushed at offset 0: the
\* array, unless another writer's bytes arrived after this writer's truncation
\* and reach beyond the array's end.
Flushed(f, array) ==
    IF f = EmptyFile THEN {JsonFile(array)} ELSE {JsonFile(array), TornFile}

\* save_courses: json.dump and the close of the file; then the way out of
\* add_course: return redirect(url_for('course_catalog'))
SaveDump(w) ==
    /\ pc[w] = "dump"
    /\ file' \in Flushed(file, JsonDump(courses[w]))
    /\ Return(w, Outcome("Created", course_data[w]),
              EndSpan(EndSpan(AddEvent(EndSpan(trace[w], "save_course_data"),
                  "course_added"), "handle_form_submission"), "add_course"))
    /\ UNCHANGED <<route_counts, error_counts, requests, req, entry, count,
                   course_data, missing_fields, courses, course>>

----------------------------------------------------------------------------
(* Specifications *)

\* One step of worker w, which takes its requests from R.
Step(w, R) ==
    \/ \E r \in R : Dispatch(w, r)
    \/ Enter(w)
    \/ CountRoute(w)
    \/ Render(w)
    \/ LoadCatalog(w)
    \/ Lookup(w)
    \/ HandleForm(w)
    \/ CheckDuplicate(w)
    \/ SaveLoad(w)
    \/ SaveOpen(w)
    \/ SaveDump(w)
    \/ ReadError(w)
    \/ Fail(w)

\* Requests served concurrently by the worker threads.
Next == \E w \in Workers : Step(w, ConcurrentRequests)

Spec == Init /\ [][Next]_vars

\* Requests served one after the other.
SeqNext == Step(MainWorker, Requests)

SeqSpec == Init /\ [][SeqNext]_vars

----------------------------------------------------------------------------
(* Vocabulary of the properties *)

\* Worker w has returned from the handler of its request.
Done(w) == pc[w] = "done"

IsCreate(w) == req[w].route = "add_course" /\ req[w].method = "POST"

IsGetCourse(w) == req[w].route = "course_details"

\* The four required fields are in the form and none is the empty string.
ValidInput(form) == \A k \in RequiredKeys : k \in DOMAIN form /\ form[k] # ""

\* The records of a catalog file that can be read (none when it is absent).
Store(f) == IF f.state = "json" THEN JsonLoad(f.array) ELSE <<>>

\* The codes the records of a catalog file carry.
StoredCodes(f) == {Store(f)[i]["code"] : i \in 1..Len(Store(f))}

\* Record r says what the form says: each field the form supplies has the
\* supplied string, each field it does not supply holds no text.
EqualToInput(r, form) ==
    \A k \in KeySet : IF k \in DOMAIN form THEN r[k] = PyStr(form[k])
                      ELSE r[k] \in {PyNone, PyStr("")}

\* The required fields a form lacks, in the order name, code, instructor, semester.
MissingOf(form) ==
    SelectSeq(<<"name", "code", "instructor", "semester">>,
              LAMBDA k : k \notin DOMAIN form \/ form[k] = "")

----------------------------------------------------------------------------
(* Sequential contract of createCourse and getCourse (SeqSpec) *)

\* C1: round trip.  A createCourse whose four required fields are non-empty
\* and whose code no stored record carries returns Created with a record equal
\* to the input, and a getCourse of that code that follows it returns that
\* record, whatever the store held before.
RoundTrip ==
    \A w \in Workers : Done(w) =>
        /\ (IsCreate(w) /\ ValidInput(req[w].form)
              /\ PyStr(req[w].form["code"]) \notin StoredCodes(entry.file))
           => /\ result[w].kind = "Created"
              /\ EqualToInput(result[w].value, req[w].form)
        /\ (IsGetCourse(w) /\ entry.created # PyNone
              /\ entry.created["code"] = PyStr(req[w].code))
           => /\ result[w].kind = "Found"
              /\ result[w].value = entry.created

\* A getCourse has returned the record the request before it created, from a
\* store that held another record before, one optional field being absent.
RoundTripWitness ==
    \E w \in Workers :
        /\ Done(w) /\ IsGetCourse(w)
        /\ entry.created # PyNone
        /\ entry.created["code"] = PyStr(req[w].code)
        /\ entry.created["prerequisites"] = PyNone
        /\ entry.created["classroom"] = PyStr("R1")
        /\ result[w].kind = "Found"
        /\ Len(Store(file)) = 2

\* C2: a createCourse that lacks a required field (absent or empty) returns
\* ValidationFailed with exactly the missing required fields in the order name,
\* code, instructor, semester, and the store is as it was at dispatch, also
\* when the code is one the store holds.
ValidationFailedListsMissing ==
    \A w \in Workers : (Done(w) /\ IsCreate(w) /\ ~ValidInput(req[w].form)) =>
        /\ result[w].kind = "ValidationFailed"
        /\ result[w].value = MissingOf(req[w].form)
        /\ file = entry.file

\* A request with an absent name, an empty instructor and a stored code was
\* refused.
ValidationFailedWitness ==
    \E w \in Workers :
        /\ Done(w) /\ IsCreate(w)
        /\ "name" \notin DOMAIN req[w].form
        /\ "code" \in DOMAIN req[w].form
        /\ PyStr(req[w].form["code"]) \in StoredCodes(entry.file)
        /\ result[w].kind = "ValidationFailed"
        /\ result[w].value = <<"name", "instructor">>

\* C3: a createCourse with the four required fields whose code equals, as a
\* string, the code of a stored record returns DuplicateCode of that code and
\* the store is as it was at dispatch.
DuplicateCodeRefused ==
    \A w \in Workers :
        (Done(w) /\ IsCreate(w) /\ ValidInput(req[w].form)
           /\ PyStr(req[w].form["code"]) \in StoredCodes(entry.file)) =>
        /\ result[w].kind = "DuplicateCode"
        /\ result[w].value = req[w].form["code"]
        /\ file = entry.file

\* A duplicate of the second of two stored records, whose codes differ in case
\* only, was refused.
DuplicateCodeWitness ==
    \E w \in Workers :
        /\ Done(w) /\ IsCreate(w)
        /\ result[w].kind = "DuplicateCode"
        /\ Len(Store(file)) = 2
        /\ Store(file)[2]["code"] = PyStr(req[w].form["code"])

\* C6: a getCourse of a code no stored record carries returns NotFound and the
\* catalog file is as it was at dispatch.
NotFoundLeavesStore ==
    \A w \in Workers :
        (Done(w) /\ IsGetCourse(w)
           /\ PyStr(req[w].code) \notin StoredCodes(entry.file)) =>
        /\ result[w].kind = "NotFound"
        /\ file = entry.file

\* A code was looked up in a store that holds only the other code.
NotFoundWitness ==
    \E w \in Workers :
        /\ Done(w) /\ IsGetCourse(w)
        /\ result[w].kind = "NotFound"
        /\ Len(Store(file)) = 1
        /\ error_counts["missing_fields"] >= 1

\* C9: in a sequential execution a request leaves the stored records as they
\* were, content and position, and a createCourse that returns Created adds
\* exactly its record after them.
CreateAppendsLast ==
    \A w \in Workers : Done(w) =>
        IF result[w].kind = "Created"
        THEN Store(file) = Append(Store(entry.file), result[w].value)
        ELSE Store(file) = Store(entry.file)

\* A record was created into a store that held one already.
CreateAppendsWitness ==
    \E w \in Workers :
        /\ Done(w)
        /\ result[w].kind = "Created"
        /\ Len(Store(entry.file)) = 1
        /\ Len(Store(file)) = 2

----------------------------------------------------------------------------
(* Route counters (SeqSpec) *)

\* C7: over any sequence of requests, no step lowers a route counter, and a
\* request that returns, whatever it returns, has raised the counter of its
\* own route by exactly 1 and left the other route counters as they were at
\* its dispatch.
CountersCountEachRequest ==
    [][/\ \A k \in DOMAIN route_counts : route_counts'[k] >= route_counts[k]
       /\ \A w \in Workers : Done(w)' =>
            route_counts' = [entry'.route_counts EXCEPT ![req'[w].route] = @ + 1]
      ]_vars

\* The second createCourse of a run was refused and counted all the same.
CountersWitness ==
    \E w \in Workers :
        /\ Done(w) /\ IsCreate(w)
        /\ result[w].kind \in {"ValidationFailed", "DuplicateCode"}
        /\ route_counts["add_course"] = 2
        /\ route_counts["catalog"] = 0

----------------------------------------------------------------------------
(* Concurrent requests (Spec) *)

\* C4: in every reachable state the records of the store have pairwise
\* distinct codes, also when createCourse requests run concurrently.
UniqueCodes ==
    \A i, j \in 1..Len(Store(file)) :
        i # j => Store(file)[i]["code"] # Store(file)[j]["code"]

\* all but the last element
Front(seq) == SubSeq(seq, 1, Len(seq) - 1)

\* Workers w and v have both returned Created and had read the same records
\* before they appended their own.
BothCreatedFromSameSnapshot(w, v) ==
    /\ w # v
    /\ Done(w) /\ result[w].kind = "Created"
    /\ Done(v) /\ result[v].kind = "Created"
    /\ Front(courses[w]) = Front(courses[v])

\* C5: lost update.  When two concurrent createCourse requests have read the
\* same snapshot and both returned Created, a readable store holds that
\* snapshot followed by exactly one record, the record of one of the two: the
\* append of the other is not there.
LastWriterWins ==
    \A w, v \in Workers :
        (BothCreatedFromSameSnapshot(w, v) /\ file.state = "json") =>
        /\ Len(Store(file)) = Len(courses[w])
        /\ Front(Store(file)) = Front(courses[w])
        /\ Store(file)[Len(Store(file))] \in {course_data[w], course_data[v]}

\* Two requests with distinct codes, neither in the store, both returned
\* Created from the same snapshot, and the store lacks the record of one.
LostUpdateWitness ==
    \E w, v \in Workers :
        /\ BothCreatedFromSameSnapshot(w, v)
        /\ file.state = "json"
        /\ course_data[w]["code"] # course_data[v]["code"]
        /\ FindByCode(Store(file), course_data[w]["code"]) = PyNone
        /\ FindByCode(Store(file), course_data[v]["code"]) = course_data[v]

----------------------------------------------------------------------------
(* Defaults of the optional fields (SeqSpec) *)

\* C8: when createCourse returns Created, each optional field absent from the
\* input is stored in the persisted record as the empty string.
AbsentOptionalsStoredEmpty ==
    \A w \in Workers : (Done(w) /\ result[w].kind = "Created") =>
        \A k \in OptionalKeys \ DOMAIN req[w].form :
            file.array[Len(file.array)][k] = [json |-> "string", chars |-> ""]

----------------------------------------------------------------------------
(* Spans (Spec) *)

\* The spans open after the events of tr, innermost first, from those open
\* before; <<"?">> once an end did not name the innermost open span or an
\* event fell outside every span.
RECURSIVE OpenSpans(_, _)
OpenSpans(tr, open) ==
    IF tr = <<>> \/ open = <<"?">> THEN open
    ELSE IF Head(tr)[1] = "start" THEN OpenSpans(Tail(tr), <<Head(tr)[2]>> \o open)
    ELSE IF open = <<>> THEN <<"?">>
    ELSE IF Head(tr)[1] = "event" THEN OpenSpans(Tail(tr), open)
    ELSE IF Head(open) = Head(tr)[2] THEN OpenSpans(Tail(tr), Tail(open))
    ELSE <<"?">>

\* how many events of tr are <<what, name>>
Occurrences(tr, what, name) ==
    Cardinality({i \in 1..Len(tr) : tr[i] = <<what, name>>})

SpanNames == {"index", "course_catalog", "load_courses", "render_catalog",
              "course_details", "load_course_data", "add_course",
              "handle_form_submission", "check_duplicate_code", "save_course_data"}

\* C10: the spans of a request end in last-started-first-ended order, each
\* within its parent, and when the request returns, on whatever path, every
\* span it started, the root span of its route among them, has ended exactly
\* once.
SpansClosedOnReturn ==
    \A w \in Workers :
        /\ OpenSpans(trace[w], <<>>) # <<"?">>
        /\ Done(w) =>
            /\ OpenSpans(trace[w], <<>>) = <<>>
            /\ Occurrences(trace[w], "start", RootSpan(req[w].route)) = 1
            /\ \A n \in SpanNames :
                 /\ Occurrences(trace[w], "start", n) <= 1
                 /\ Occurrences(trace[w], "end", n) = Occurrences(trace[w], "start", n)

\* A request returned DuplicateCode from inside three nested spans.
SpansClosedWitness ==
    \E w \in Workers :
        /\ Done(w)
        /\ result[w].kind = "DuplicateCode"
        /\ Occurrences(trace[w], "end", "check_duplicate_code") = 1
        /\ Occurrences(trace[w], "end", "handle_form_submission") = 1
        /\ Occurrences(trace[w], "end", "add_course") = 1

====
